---- MODULE Spec2Model ----
(***************************************************************************)
(* Model of torch/distributed/optim/functional_rmsprop.py:                 *)
(* the class _FunctionalRMSprop (construction and step) together with the  *)
(* update kernel F.rmsprop that step calls.                                *)
(*                                                                         *)
(* Tensors are modelled as one-element buffers (every operation of the     *)
(* update rule is elementwise).  Floating-point values are fixed-point     *)
(* integers with eight decimal places (ONE stands for 1.0), so that the    *)
(* default eps = 1e-8 is one unit.  Parameters are identities 1..MaxParams *)
(* and the constructor's list holds pairwise distinct parameters.          *)
(***************************************************************************)
EXTENDS Integers, Sequences, FiniteSets, TLC

\* ------------------------------------------------------------------ bounds
MaxParams == 2
MaxCalls == 2

\* ------------------------------------------------- fixed-point arithmetic
HALF == 100 * 100
ONE == HALF * HALF
\* the not-a-number value of the float format
NaN == 0 - (21 * ONE)

Abs(x) == IF x < 0 THEN 0 - x ELSE x
Sgn(x) == IF x < 0 THEN 0 - 1 ELSE 1

\* |a| * |b| / ONE, rounded towards zero, without leaving 32 bits
MulAbs(a, b) ==
    LET ah == a \div HALF
        al == a % HALF
        bh == b \div HALF
        bl == b % HALF
    IN  ah * bh + ((ah * bl + al * bh) + ((al * bl) \div HALF)) \div HALF

Mul(a, b) ==
    IF a = NaN \/ b = NaN THEN NaN
    ELSE Sgn(a) * Sgn(b) * MulAbs(Abs(a), Abs(b))

Add(a, b) == IF a = NaN \/ b = NaN THEN NaN ELSE a + b

Sub(a, b) == IF a = NaN \/ b = NaN THEN NaN ELSE a - b

\* the first k decimal digits of r / b after acc, for 0 <= r < b
RECURSIVE Frac(_, _, _, _)
Frac(acc, r, b, k) ==
    IF k = 0 THEN acc
    ELSE Frac(acc * 10 + ((r * 10) \div b), (r * 10) % b, b, k - 1)

\* a / b rounded towards zero; a zero divisor gives no finite value
Div(a, b) ==
    IF a = NaN \/ b = NaN \/ b = 0 THEN NaN
    ELSE Sgn(a) * Sgn(b) *
         Frac(Abs(a) \div Abs(b), Abs(a) % Abs(b), Abs(b), 8)

\* r * r <= x * ONE, for r, x >= 0
SqLeq(r, x) ==
    LET ah == r \div HALF
        al == r % HALF
        m == 2 * ah * al + ((al * al) \div HALF)
        hi == ah * ah + (m \div HALF)
        exact == (m % HALF = 0) /\ ((al * al) % HALF = 0)
    IN  hi < x \/ (hi = x /\ exact)

RECURSIVE SqrtSearch(_, _, _)
SqrtSearch(lo, hi, x) ==
    IF lo >= hi THEN lo
    ELSE LET mid == (lo + hi + 1) \div 2
         IN  IF SqLeq(mid, x) THEN SqrtSearch(mid, hi, x)
             ELSE SqrtSearch(lo, mid - 1, x)

\* the integer square root of x > 0, by Newton's iteration from r >= sqrt(x)
RECURSIVE ISqrt(_, _)
ISqrt(r, x) ==
    LET r2 == (r + (x \div r)) \div 2
    IN  IF r2 >= r THEN r ELSE ISqrt(r2, x)

\* a power of ten that is at least sqrt(x)
RECURSIVE Above(_, _)
Above(t, x) == IF (x \div t) < t THEN t ELSE Above(10 * t, x)

\* The square root, rounded down; of a negative number it is NaN.  With
\* s == ISqrt(x) the root lies in [s * HALF, (s + 1) * HALF), and its distance
\* d from s * HALF is at most e == (x - s * s) * HALF / (2 * s) and at least
\* e - HALF / (2 * s) - 2: the search runs over that window only.
Sqrt(x) ==
    IF x = NaN \/ x < 0 THEN NaN
    ELSE IF x = 0 THEN 0
    ELSE LET s == ISqrt(Above(1, x), x)
             e == ((x - s * s) * HALF) \div (2 * s)
             lo == e - (HALF \div (2 * s)) - 2
             hi == IF e > HALF - 1 THEN HALF - 1 ELSE e
         IN  SqrtSearch(s * HALF + (IF lo < 0 THEN 0 ELSE lo), s * HALF + hi, x)

\* ------------------------------------------------------------- the inputs
Ids == 1..MaxParams

\* the value each parameter tensor holds before the updater is built
ParamInit(i) == IF i = 1 THEN ONE ELSE ONE - ((i - 1) * (ONE \div 5))

\* an Optional[Tensor] slot of the gradient list
Absent == [present |-> FALSE, g |-> 0]
Some(x) == [present |-> TRUE, g |-> x]
GradValues == {2 * ONE, 0}
Slots == {Absent} \cup {Some(x) : x \in GradValues}

\* the parameter lists tried at construction: <<>>, <<1>>, <<1, 2>>, ...
ParamLists == {[i \in 1..n |-> i] : n \in 0..MaxParams}

\* the constructor's defaults for lr, alpha and eps; weight decay, momentum
\* and centering each switched off (the default) and on
Configs ==
    [lr : {ONE \div 100},
     alpha : {99 * (ONE \div 100)},
     eps : {1},
     weight_decay : {0, ONE \div 10},
     momentum : {0, ONE \div 2},
     centered : BOOLEAN]

\* gradient lists of the right length, and lists one too short or too long
GradLists(n) ==
    [1..n -> Slots]
    \cup {[i \in 1..(n + 1) |-> s] : s \in Slots}
    \cup (IF n = 0 THEN {} ELSE {[i \in 1..(n - 1) |-> s] : s \in Slots})

Empty == [i \in {} |-> 0]

VARIABLES pc, defaults, centered, params, state, value, calls, log, request

vars == <<pc, defaults, centered, params, state, value, calls, log, request>>

\* ------------------------------------------------------ _FunctionalRMSprop
\* the emptiness test left out
EmptyParams_never(ps) == FALSE

\* `if len(params) == 0` of __init__
EmptyParams(ps) == Len(ps) = 0

\* only a list that is too short is rejected
LengthMismatch_short(ps, gradients) == Len(ps) > Len(gradients)

\* `if len(params) != len(gradients)` of step
LengthMismatch(ps, gradients) == Len(ps) # Len(gradients)

\* the record is built again on every gradient
NeedsInit_always(st, p) == TRUE

\* `if param not in self.state` of step
NeedsInit(st, p) == p \notin DOMAIN st

\* momentum_buffer allocated for momentum >= 0
NewState_buf(momentum, cent) ==
    [k \in {"step", "square_avg"}
           \cup (IF momentum >= 0 THEN {"momentum_buffer"} ELSE {})
           \cup (IF cent THEN {"grad_avg"} ELSE {}) |-> 0]

\* the record the lazy state initialization of step builds
NewState(momentum, cent) ==
    [k \in {"step", "square_avg"}
           \cup (IF momentum > 0 THEN {"momentum_buffer"} ELSE {})
           \cup (IF cent THEN {"grad_avg"} ELSE {}) |-> 0]

\* the counter assigned instead of incremented
IncStep_set(rec) == [rec EXCEPT !["step"] = 1]

\* `state['step'] += 1`
IncStep(rec) == [rec EXCEPT !["step"] = @ + 1]

\* self.state with the record rec stored under the key p
Store(st, p, rec) ==
    [q \in DOMAIN st \cup {p} |-> IF q = p THEN rec ELSE st[q]]

Min(a, b) == IF a < b THEN a ELSE b

\* One iteration of `for param, gradient in zip(params, gradients)`.
\* The lists square_avgs, grad_avgs and momentum_buffer_list hold references
\* to the buffers of a state record: they are modelled by the record's key.
CollectOne(acc, p, gradient, momentum, cent) ==
    IF ~gradient.present THEN acc
    ELSE LET st1 == IF NeedsInit(acc.state, p)
                    THEN Store(acc.state, p, NewState(momentum, cent))
                    ELSE acc.state
         IN  [state |-> [st1 EXCEPT ![p] = IncStep(@)],
              grads |-> Append(acc.grads, gradient.g),
              square_avgs |-> Append(acc.square_avgs, p),
              momentum_buffer_list |->
                  IF momentum > 0 THEN Append(acc.momentum_buffer_list, p)
                  ELSE acc.momentum_buffer_list,
              grad_avgs |->
                  IF cent THEN Append(acc.grad_avgs, p) ELSE acc.grad_avgs]

RECURSIVE CollectLoop(_, _, _, _, _, _)
CollectLoop(i, acc, ps, gradients, momentum, cent) ==
    IF i > Min(Len(ps), Len(gradients)) THEN acc
    ELSE CollectLoop(i + 1, CollectOne(acc, ps[i], gradients[i], momentum, cent),
                     ps, gradients, momentum, cent)

\* the loop of step: the state mapping and the four lists it leaves
StepCollect(st, ps, gradients, momentum, cent) ==
    CollectLoop(1,
                [state |-> st, grads |-> <<>>, square_avgs |-> <<>>,
                 momentum_buffer_list |-> <<>>, grad_avgs |-> <<>>],
                ps, gradients, momentum, cent)

\* ------------------------------------------------- the update kernel rmsprop
\* the body of the kernel's loop for index i; mem = [value, state]
RmspropOne(mem, i, ps, grads, square_avgs, grad_avgs, momentum_buffer_list, lr, alpha, eps, weight_decay, momentum, cent) ==
    LET p == ps[i]
        grad == IF weight_decay # 0
                THEN Add(grads[i], Mul(weight_decay, mem.value[p]))
                ELSE grads[i]
        sq == Add(Mul(mem.state[square_avgs[i]]["square_avg"], alpha),
                  Mul(ONE - alpha, Mul(grad, grad)))
        st1 == [mem.state EXCEPT ![square_avgs[i]]["square_avg"] = sq]
        ga == IF cent
              THEN Add(Mul(st1[grad_avgs[i]]["grad_avg"], alpha),
                       Mul(ONE - alpha, grad))
              ELSE 0
        st2 == IF cent THEN [st1 EXCEPT ![grad_avgs[i]]["grad_avg"] = ga]
               ELSE st1
        avg == IF cent THEN Add(Sqrt(Sub(sq, Mul(ga, ga))), eps)
               ELSE Add(Sqrt(sq), eps)
        buf == IF momentum > 0
               THEN Add(Mul(st2[momentum_buffer_list[i]]["momentum_buffer"],
                            momentum),
                        Div(grad, avg))
               ELSE 0
        st3 == IF momentum > 0
               THEN [st2 EXCEPT ![momentum_buffer_list[i]]["momentum_buffer"] = buf]
               ELSE st2
        newp == IF momentum > 0 THEN Sub(mem.value[p], Mul(lr, buf))
                ELSE Sub(mem.value[p], Mul(lr, Div(grad, avg)))
    IN  [value |-> [mem.value EXCEPT ![p] = newp], state |-> st3]

\* the kernel's loop over the index of params; grads[i] past the end of grads
\* raises, and the in-place updates made before it stay
RECURSIVE RmspropLoop(_, _, _, _, _, _, _, _, _, _, _, _, _)
RmspropLoop(mem, i, ps, grads, square_avgs, grad_avgs, momentum_buffer_list, lr, alpha, eps, weight_decay, momentum, cent) ==
    IF i > Len(ps) THEN [value |-> mem.value, state |-> mem.state, result |-> "ok"]
    ELSE IF i > Len(grads)
    THEN [value |-> mem.value, state |-> mem.state, result |-> "IndexError"]
    ELSE RmspropLoop(
             RmspropOne(mem, i, ps, grads, square_avgs, grad_avgs,
                        momentum_buffer_list, lr, alpha, eps, weight_decay,
                        momentum, cent),
             i + 1, ps, grads, square_avgs, grad_avgs, momentum_buffer_list,
             lr, alpha, eps, weight_decay, momentum, cent)

Rmsprop(mem, ps, grads, square_avgs, grad_avgs, momentum_buffer_list, lr, alpha, eps, weight_decay, momentum, cent) ==
    RmspropLoop(mem, 1, ps, grads, square_avgs, grad_avgs, momentum_buffer_list,
                lr, alpha, eps, weight_decay, momentum, cent)

\* lr and weight_decay passed in each other's place
CallKernel_swapped(mem, ps, c, d, cent) ==
    Rmsprop(mem, ps, c.grads, c.square_avgs, c.grad_avgs, c.momentum_buffer_list,
            d.weight_decay, d.alpha, d.eps, d.lr, d.momentum, cent)

\* the call `F.rmsprop(params, grads, ..., self.centered)` of step
CallKernel(mem, ps, c, d, cent) ==
    Rmsprop(mem, ps, c.grads, c.square_avgs, c.grad_avgs, c.momentum_buffer_list,
            d.lr, d.alpha, d.eps, d.weight_decay, d.momentum, cent)

\* ----------------------------------------------------------- the machine
\* pc: "new" before construction, "idle" for a constructed updater,
\*     "failed" when __init__ raised and no object exists.
\* log: one entry per finished step call (the arguments, the outcome, the
\*     state mapping after the loop, and the memory after the call).
\* request: the arguments the constructor was called with.
Init ==
    /\ pc = "new"
    /\ defaults = [lr |-> 0, alpha |-> 0, eps |-> 0, weight_decay |-> 0,
                   momentum |-> 0]
    /\ centered = FALSE
    /\ params = <<>>
    /\ state = Empty
    /\ value = [i \in Ids |-> ParamInit(i)]
    /\ calls = 0
    /\ log = <<>>
    /\ request = [params |-> <<>>, config |-> CHOOSE c \in Configs : TRUE]

\* __init__(params, lr, alpha, eps, weight_decay, momentum, centered)
Construct(ps, cfg) ==
    /\ pc = "new"
    /\ request' = [params |-> ps, config |-> cfg]
    /\ defaults' = [lr |-> cfg.lr, alpha |-> cfg.alpha, eps |-> cfg.eps,
                    weight_decay |-> cfg.weight_decay,
                    momentum |-> cfg.momentum]
    /\ centered' = cfg.centered
    /\ IF EmptyParams(ps)
       THEN /\ pc' = "failed"
            /\ UNCHANGED <<params, state>>
       ELSE /\ pc' = "idle"
            /\ params' = ps
            /\ state' = Empty
    /\ UNCHANGED <<value, calls, log>>

\* step(gradients)
Step(gradients) ==
    /\ pc = "idle"
    /\ calls < MaxCalls
    /\ calls' = calls + 1
    /\ IF LengthMismatch(params, gradients)
       THEN /\ log' = Append(log, [gradients |-> gradients,
                                   result |-> "ValueError",
                                   collected |-> state,
                                   value |-> value, state |-> state])
            /\ UNCHANGED <<state, value>>
       ELSE \E c \in {StepCollect(state, params, gradients,
                                   defaults.momentum, centered)} :
            \E k \in {CallKernel([value |-> value, state |-> c.state],
                                  params, c, defaults, centered)} :
                /\ state' = k.state
                /\ value' = k.value
                /\ log' = Append(log, [gradients |-> gradients,
                                       result |-> k.result,
                                       collected |-> c.state,
                                       value |-> k.value, state |-> k.state])
    /\ UNCHANGED <<pc, defaults, centered, params, request>>

Next ==
    \/ \E ps \in ParamLists, cfg \in Configs : Construct(ps, cfg)
    \/ \E gradients \in GradLists(Len(params)) : Step(gradients)

Spec == Init /\ [][Next]_vars

\* ------------------------------------------------------------ the history
\* the parameters of the constructor's list
ParamSet == {params[j] : j \in 1..Len(params)}

\* the memory before the k-th step call
ValueBefore(k) == IF k = 1 THEN [i \in Ids |-> ParamInit(i)] ELSE log[k - 1].value
StateBefore(k) == IF k = 1 THEN Empty ELSE log[k - 1].state

\* the k-th call passed the length check: its slots correspond to the parameters
Accepted(k) == Len(log[k].gradients) = Len(params)

\* the slots of accepted call k that hold a gradient
Present(k) == {j \in 1..Len(params) : log[k].gradients[j].present}
Absents(k) == {j \in 1..Len(params) : ~log[k].gradients[j].present}

AcceptedCalls == {k \in 1..Len(log) : Accepted(k)}

\* what the update rule gives for slot j of call k when it is applied to the
\* parameter of slot j, the gradient of slot j and the record of that parameter
OwnUpdate(k, j) ==
    LET p == params[j]
        cfg == request.config
    IN  Rmsprop([value |-> ValueBefore(k), state |-> log[k].collected],
                <<p>>, <<log[k].gradients[j].g>>, <<p>>, <<p>>, <<p>>,
                cfg.lr, cfg.alpha, cfg.eps, cfg.weight_decay, cfg.momentum,
                cfg.centered)

\* the keys of a record other than the step counter
Buffers(rec) == DOMAIN rec \ {"step"}

\* C1: in every step call with a gradient list of the right length, each
\* parameter whose slot holds a gradient is updated from the gradient of its
\* own slot and from its own state record, and no other parameter's buffer
\* or record is read or written for it.
C1_OwnSlotUpdate ==
    \A k \in AcceptedCalls : \A j \in Present(k) :
        /\ log[k].value[params[j]] = OwnUpdate(k, j).value[params[j]]
        /\ log[k].state[params[j]] = OwnUpdate(k, j).state[params[j]]

\* C2: in every step call with a gradient list of the right length, a
\* parameter whose slot is absent keeps its value, gets no state record, and
\* keeps its record (step counter included) if it has one.
C2_AbsentSkipped ==
    \A k \in AcceptedCalls : \A j \in Absents(k) :
        LET p == params[j]
        IN  /\ log[k].value[p] = ValueBefore(k)[p]
            /\ (p \in DOMAIN log[k].state) = (p \in DOMAIN StateBefore(k))
            /\ p \in DOMAIN StateBefore(k) => log[k].state[p] = StateBefore(k)[p]

\* C3: construction fails only on an empty parameter list, and a step call
\* fails only when the gradient list length differs from the parameter count.
C3_OnlyInputChecksFail ==
    /\ pc = "failed" => Len(request.params) = 0
    /\ \A k \in 1..Len(log) : log[k].result # "ok" => ~Accepted(k)

\* C4: a step call whose gradient list length differs from the parameter
\* count fails, and leaves every parameter buffer, every state record and the
\* keys of the state mapping as they were before the call.
C4_MismatchRejected ==
    \A k \in 1..Len(log) :
        ~Accepted(k) =>
            /\ log[k].result = "ValueError"
            /\ log[k].value = ValueBefore(k)
            /\ log[k].state = StateBefore(k)
            /\ log[k].collected = StateBefore(k)

C4_Witness ==
    \E k \in 1..Len(log) :
        /\ ~Accepted(k)
        /\ Len(log[k].gradients) > Len(params)
        /\ \E j \in 1..Len(log[k].gradients) : log[k].gradients[j].present
        /\ StateBefore(k) # Empty

\* C5: construction with an empty parameter list fails whatever the config
\* is, and leaves no updater to call; construction with a non-empty list
\* succeeds, keeps the list and starts with an empty state mapping.
C5_Construction ==
    /\ (pc # "new" /\ Len(request.params) = 0) => (pc = "failed" /\ log = <<>>)
    /\ (pc # "new" /\ Len(request.params) > 0) =>
           /\ pc = "idle"
           /\ params = request.params
           /\ log = <<>> => state = Empty

C5_Witness ==
    /\ pc = "failed"
    /\ request.config.momentum > 0
    /\ request.config.centered

\* the number of accepted calls in which the slot of parameter p held a gradient
PresentCount(p) ==
    Cardinality({k \in AcceptedCalls :
                    \E j \in Present(k) : params[j] = p})

\* C6: a parameter has a state record exactly when some accepted call gave it
\* a gradient, and the record's step counter is the number of those calls.
C6_StepCounter ==
    \A p \in Ids :
        /\ (p \in DOMAIN state) = (PresentCount(p) > 0)
        /\ p \in DOMAIN state => state[p]["step"] = PresentCount(p)

C6_Witness ==
    /\ Len(log) = 2
    /\ \E p \in DOMAIN state :
        /\ state[p]["step"] = 1
        /\ \E k \in AcceptedCalls : \E j \in Absents(k) : params[j] = p
    /\ \E q \in DOMAIN state : state[q]["step"] = 2

\* the keys the construction-time config gives every state record
ConfigKeys ==
    {"step", "square_avg"}
    \cup (IF request.config.momentum > 0 THEN {"momentum_buffer"} ELSE {})
    \cup (IF request.config.centered THEN {"grad_avg"} ELSE {})

\* C7: every state record, from its creation on and after every call, has the
\* keys step and square_avg, momentum_buffer iff momentum > 0 at construction,
\* and grad_avg iff centered at construction.
C7_RecordFields ==
    /\ \A p \in DOMAIN state : DOMAIN state[p] = ConfigKeys
    /\ \A k \in 1..Len(log) :
        /\ \A p \in DOMAIN log[k].collected : DOMAIN log[k].collected[p] = ConfigKeys
        /\ \A p \in DOMAIN log[k].state : DOMAIN log[k].state[p] = ConfigKeys

C7_Witness ==
    /\ Len(log) = 2
    /\ request.config.momentum > 0
    /\ ~request.config.centered
    /\ \E p \in DOMAIN state :
        /\ state[p]["step"] = 2
        /\ state[p]["momentum_buffer"] # 0

\* the config of the plain rule: no weight decay, no momentum, not centered
PlainConfig ==
    /\ request.config.weight_decay = 0
    /\ request.config.momentum = 0
    /\ ~request.config.centered

\* within 1e-6 of each other
About(a, b) == Abs(a - b) <= ONE \div (1000 * 1000)

\* C8: with weight_decay = 0, momentum = 0 and centered = false, the first
\* step that gives a parameter a gradient g sets its square_avg to
\* (1 - alpha) * g^2 and the parameter to p - lr * g / (sqrt(square_avg) + eps);
\* for p = 1.0 and g = 2.0 that is square_avg = 0.04 and a value of about 0.9.
C8_FirstStep ==
    PlainConfig =>
        \A k \in AcceptedCalls : \A j \in Present(k) :
            params[j] \notin DOMAIN StateBefore(k) =>
                LET p == params[j]
                    g == log[k].gradients[j].g
                    cfg == request.config
                    sq == Mul(ONE - cfg.alpha, Mul(g, g))
                    new == Sub(ValueBefore(k)[p],
                               Mul(cfg.lr, Div(g, Add(Sqrt(sq), cfg.eps))))
                IN  /\ log[k].state[p]["square_avg"] = sq
                    /\ log[k].value[p] = new
                    /\ (ValueBefore(k)[p] = ONE /\ g = 2 * ONE) =>
                           /\ log[k].state[p]["square_avg"] = 4 * (ONE \div 100)
                           /\ About(log[k].value[p], 9 * (ONE \div 10))

\* accepted calls k and k + 1 give the parameter of slot j the same gradient
SameGradientTwice(k, j) ==
    /\ k \in AcceptedCalls
    /\ k + 1 \in AcceptedCalls
    /\ j \in Present(k) \cap Present(k + 1)
    /\ log[k].gradients[j].g = log[k + 1].gradients[j].g

C10_Lifecycle ==
    /\ DOMAIN state \subseteq ParamSet
    /\ \A k \in 1..Len(log) :
        /\ DOMAIN log[k].state = DOMAIN log[k].collected
        /\ DOMAIN log[k].collected =
               DOMAIN StateBefore(k)
               \cup (IF Accepted(k) THEN {params[j] : j \in Present(k)} ELSE {})
        /\ \A p \in DOMAIN log[k].collected \ DOMAIN StateBefore(k) :
               /\ log[k].collected[p]["step"] = 1
               /\ \A b \in Buffers(log[k].collected[p]) : log[k].collected[p][b] = 0
        /\ \A p \in DOMAIN StateBefore(k) :
               /\ log[k].collected[p]["step"] >= StateBefore(k)[p]["step"]
               /\ log[k].state[p]["step"] = log[k].collected[p]["step"]
               /\ \A b \in Buffers(StateBefore(k)[p]) :
                      log[k].collected[p][b] = StateBefore(k)[p][b]

C10_Witness ==
    /\ Len(log) = 2
    /\ Accepted(1)
    /\ Accepted(2)
    /\ \E j \in Present(1) \cap Absents(2) :
        /\ state[params[j]]["square_avg"] # 0
        /\ state[params[j]]["step"] = 1
    /\ \E j \in Present(1) \cap Present(2) :
        /\ state[params[j]]["step"] = 2
        /\ log[1].state[params[j]]["square_avg"] # 0

====
